---------------------------- MODULE Spec2Model ----------------------------
(***************************************************************************)
(* Model of pdf2docx/page/Pages.py: Pages.parse and the header/footer      *)
(* detection of Pages._parse_header_footer.                                *)
(*                                                                         *)
(* A text is a sequence of one-character strings.  A block is a record     *)
(* [text, bbox] with bbox = <<x0, y0, x1, y1>>; Python's bbox[1] and       *)
(* bbox[3] are bbox[2] and bbox[4] here (TLA+ tuples start at 1).          *)
(***************************************************************************)
EXTENDS Integers, Sequences, FiniteSets, TLC

VARIABLES
    self_pages,     \* the Pages collection: sequence of Page records
    fitz_doc,       \* the document: page id -> what extraction + clean-up yield
    pc,             \* position in parse
    cur,            \* index of the page the current loop is at
    pages,          \* parse's local list `pages` (indices into self_pages)
    raw_pages,      \* parse's local list `raw_pages`
    words_found,    \* parse's local flag
    warned,         \* number of warnings logged
    headers,        \* Counter of header signatures
    footers,        \* Counter of footer signatures
    threshold,      \* _parse_header_footer's threshold
    header_blocks,  \* header blocks of the page classified last
    footer_blocks,  \* footer blocks of the page classified last
    history         \* the steps taken so far, in order: [op, page]

vars == <<self_pages, fitz_doc, pc, cur, pages, raw_pages, words_found, warned,
          headers, footers, threshold, header_blocks, footer_blocks, history>>

---------------------------------------------------------------------------
(* Bounds of the documents *)

MaxPages == 5

MaxRichPages == 3

MaxBlocks == 2

MaxMidPages == 5

MaxLongPages == 12

MaxThresholdPages == 20

(* Program constants *)

WindowSize == 3

DefaultThreshold == 4

---------------------------------------------------------------------------
(* Text: str.strip and re.sub(r'\d+', '1', ...) *)

None == <<"None">>

IsSpace(c) == c \in {" ", "\t", "\n"}

IsDigit(c) == c \in {"0", "1", "2", "3", "4", "5", "6", "7", "8", "9"}

RECURSIVE LStrip(_)
LStrip(s) ==
    IF s = <<>> THEN s
    ELSE IF IsSpace(Head(s)) THEN LStrip(Tail(s)) ELSE s

RECURSIVE RStrip(_)
RStrip(s) ==
    IF s = <<>> THEN s
    ELSE IF IsSpace(s[Len(s)]) THEN RStrip(SubSeq(s, 1, Len(s) - 1)) ELSE s

Strip(s) == RStrip(LStrip(s))

RECURSIVE DropDigits(_)
DropDigits(s) ==
    IF s = <<>> THEN s
    ELSE IF IsDigit(Head(s)) THEN DropDigits(Tail(s)) ELSE s

RECURSIVE SubDigitsEach(_)
SubDigitsEach(s) ==
    IF s = <<>> THEN <<>>
    ELSE IF IsDigit(Head(s)) THEN <<"1">> \o SubDigitsEach(Tail(s))
    ELSE <<Head(s)>> \o SubDigitsEach(Tail(s))

RECURSIVE SubDigits(_)
SubDigits(s) ==
    IF s = <<>> THEN <<>>
    ELSE IF IsDigit(Head(s)) THEN <<"1">> \o SubDigits(DropDigits(Tail(s)))
    ELSE <<Head(s)>> \o SubDigits(Tail(s))

Signature(text) == SubDigits(Strip(text))

---------------------------------------------------------------------------
(* collections.Counter *)

EmptyCounter == [k \in {} |-> 0]

Get(c, k) == IF k \in DOMAIN c THEN c[k] ELSE 0

Incr(c, k) == [x \in DOMAIN c \cup {k} |-> Get(c, x) + IF x = k THEN 1 ELSE 0]

---------------------------------------------------------------------------
(* Blocks.sort_in_reading_order: top to bottom, then left to right *)

Before(a, b) ==
    \/ a.bbox[2] < b.bbox[2]
    \/ a.bbox[2] = b.bbox[2] /\ a.bbox[1] < b.bbox[1]
    \/ a.bbox[2] = b.bbox[2] /\ a.bbox[1] = b.bbox[1] /\ a.bbox[3] < b.bbox[3]

RECURSIVE Insert(_, _)
Insert(b, sorted) ==
    IF sorted = <<>> THEN <<b>>
    ELSE IF Before(b, Head(sorted)) THEN <<b>> \o sorted
    ELSE <<Head(sorted)>> \o Insert(b, Tail(sorted))

RECURSIVE SortInReadingOrder(_)
SortInReadingOrder(blocks) ==
    IF blocks = <<>> THEN <<>>
    ELSE Insert(blocks[Len(blocks)],
                SortInReadingOrder(SubSeq(blocks, 1, Len(blocks) - 1)))

PageBBox(raw) == <<0, 0, raw.width, raw.height>>

---------------------------------------------------------------------------
(* _parse_header_footer *)

(* int(num_pages * 0.4): 0.4 is a double just above 2/5, and the product is   *)
(* never rounded below a multiple of 2, so the result is floor(4 n / 10)     *)
ThresholdNoShortRule(num_pages) ==
    IF num_pages > 10 THEN (num_pages * 4) \div 10 ELSE DefaultThreshold

Threshold(num_pages) ==
    IF 1 < num_pages /\ num_pages <= 3 THEN num_pages
    ELSE IF num_pages > 10 THEN (num_pages * 4) \div 10
    ELSE DefaultThreshold

ExceedsOrEquals(count, thr) == count >= thr

Exceeds(count, thr) == count > thr

HeaderAt(blocks, i) == blocks[i + 1]

FooterAt(blocks, i) == blocks[Len(blocks) - i]

TallyIter(hf, blocks, i) ==
    LET h1 == IF i < Len(blocks) /\ HeaderAt(blocks, i).text # None
              THEN Incr(hf.h, Signature(HeaderAt(blocks, i).text))
              ELSE hf.h
        f1 == IF i < Len(blocks) /\ FooterAt(blocks, i).text # None
              THEN Incr(hf.f, Signature(FooterAt(blocks, i).text))
              ELSE hf.f
    IN  [h |-> h1, f |-> f1]

RECURSIVE TallyLoop(_, _, _)
TallyLoop(hf, blocks, i) ==
    IF i >= WindowSize THEN hf
    ELSE TallyLoop(TallyIter(hf, blocks, i), blocks, i + 1)

ClassifyIter(hf, blocks, i) ==
    LET h1 == IF /\ i < Len(blocks)
                 /\ HeaderAt(blocks, i).text # None
                 /\ Exceeds(Get(headers, Signature(HeaderAt(blocks, i).text)), threshold)
              THEN Append(hf.h, HeaderAt(blocks, i))
              ELSE hf.h
        f1 == IF /\ i < Len(blocks)
                 /\ FooterAt(blocks, i).text # None
                 /\ Exceeds(Get(footers, Signature(FooterAt(blocks, i).text)), threshold)
              THEN Append(hf.f, FooterAt(blocks, i))
              ELSE hf.f
    IN  [h |-> h1, f |-> f1]

RECURSIVE ClassifyLoop(_, _, _)
ClassifyLoop(hf, blocks, i) ==
    IF i >= WindowSize THEN hf
    ELSE ClassifyLoop(ClassifyIter(hf, blocks, i), blocks, i + 1)

RECURSIVE MaxDefault(_, _)
MaxDefault(s, default) ==
    IF s = <<>> THEN default
    ELSE IF Len(s) = 1 THEN s[1]
    ELSE LET m == MaxDefault(Tail(s), default)
         IN  IF s[1] >= m THEN s[1] ELSE m

RECURSIVE MinDefault(_, _)
MinDefault(s, default) ==
    IF s = <<>> THEN default
    ELSE IF Len(s) = 1 THEN s[1]
    ELSE LET m == MinDefault(Tail(s), default)
         IN  IF s[1] <= m THEN s[1] ELSE m

Bottoms(bs) == [j \in 1..Len(bs) |-> bs[j].bbox[4]]

Tops(bs) == [j \in 1..Len(bs) |-> bs[j].bbox[2]]

---------------------------------------------------------------------------
(* Collaborators of parse: margin and sections of a raw page *)

CalculateMargin(raw) == [header |-> raw.header, footer |-> raw.footer]

ParseSection(raw) == <<[margin |-> raw.margin, blocks |-> Len(raw.blocks)]>>

---------------------------------------------------------------------------
(* The documents parse is run on.  A document is a sequence of page        *)
(* variants [skip_parsing, stale, raw]: the page's skip flag, whether the  *)
(* Page record carries values of an earlier run, and what extraction and   *)
(* clean-up yield for the page.                                            *)

Blk(text, y0, y1) == [text |-> text, bbox |-> <<0, y0, 6, y1>>]

RECURSIVE RawText(_)
RawText(blocks) ==
    IF blocks = <<>> THEN <<>>
    ELSE (IF Head(blocks).text = None THEN <<>> ELSE Head(blocks).text \o <<"\n">>)
         \o RawText(Tail(blocks))

Content(blocks, header, footer) ==
    [blocks |-> blocks, width |-> 6, height |-> 10, header |-> header,
     footer |-> footer, floating |-> IF Len(blocks) > 1 THEN <<"img">> ELSE <<>>,
     raw_text |-> RawText(blocks)]

(* header and footer of a raw page before detection: what an earlier use of *)
(* the record left there                                                    *)
Parsed(blocks) == [skip_parsing |-> FALSE, stale |-> FALSE, raw |-> Content(blocks, 0, 0)]

Skipped == [skip_parsing |-> TRUE, stale |-> TRUE, raw |-> Content(<<>>, 0, 0)]

EmptyStale == [skip_parsing |-> FALSE, stale |-> TRUE, raw |-> Content(<<>>, 1, 1)]

DocsOf(variants, maxPages) == UNION {[1..n -> variants] : n \in 0..maxPages}

(* documents whose first page is drawn from `first` and the others from `rest` *)
DocsFirstRest(first, rest, maxPages) ==
    {<<>>} \cup
    UNION {{[p \in 1..n |-> IF p = 1 THEN f ELSE r[p]] : f \in first, r \in [2..n -> rest]} :
           n \in 1..maxPages}

(* page layouts *)
LayoutA ==
    <<Blk(<<"T">>, 0, 1), Blk(<<"S", " ", "1">>, 1, 2), Blk(None, 2, 5),
      Blk(<<"a">>, 5, 7), Blk(<<"P", "1">>, 8, 9)>>

LayoutB == <<Blk(<<"P", "2", "2">>, 8, 9), Blk(<<"T">>, 0, 1), Blk(<<"b">>, 2, 6)>>

LayoutC == <<Blk(<<" ", "P", "3", "3", " ">>, 4, 5)>>

LayoutD ==
    <<Blk(<<"T">>, 0, 1), Blk(<<" ">>, 1, 2), Blk(<<"c">>, 2, 3), Blk(None, 3, 4),
      Blk(<<"d">>, 4, 6), Blk(<<"P", "4", "0", "4">>, 7, 9)>>

LayoutR == <<Blk(<<"P", "2", "2">>, 8, 9), Blk(<<"P", "1">>, 0, 1), Blk(<<"b">>, 2, 6)>>

(* Spec: short documents, any page may be skipped *)
SkipVariants == {Skipped, Parsed(<<>>), Parsed(LayoutR), Parsed(LayoutC)}

(* SpecRich: short documents, every choice of texts *)
RichTexts == {None, <<" ">>, <<"P", "1">>, <<" ", "P", "2", "2", " ">>}

TextSeqs == UNION {[1..n -> RichTexts] : n \in 0..MaxBlocks}

BlocksOfTexts(ts) == [j \in 1..Len(ts) |-> Blk(ts[j], 2 * j, 2 * j + 1)]

RichVariants == {Skipped, EmptyStale} \cup {Parsed(BlocksOfTexts(ts)) : ts \in TextSeqs}

(* SpecMid: documents of the four layouts *)
MidLayouts == {Parsed(LayoutA), Parsed(LayoutB), Parsed(LayoutC), Parsed(LayoutD)}

MidFirst == {Skipped, Parsed(<<>>)} \cup MidLayouts

(* SpecLong: documents with a page-number footer "P<n>" on every page, and a *)
(* body block "a" on the pages lo..hi                                        *)
DigitChars == <<"0", "1", "2", "3", "4", "5", "6", "7", "8", "9">>

RECURSIVE Dec(_)
Dec(p) == IF p < 10 THEN <<DigitChars[p + 1]>>
          ELSE Dec(p \div 10) \o <<DigitChars[(p % 10) + 1]>>

FooterOnly(p) == Parsed(<<Blk(<<"P">> \o Dec(p), 8, 9)>>)

BodyAndFooter(p) ==
    Parsed(<<Blk(<<"a">>, 2, 5), Blk(<<" ", "P">> \o Dec(p) \o <<" ">>, 7, 9)>>)

LongPage(p, lo, hi) == IF lo <= p /\ p <= hi THEN BodyAndFooter(p) ELSE FooterOnly(p)

LongDocs(maxPages) ==
    {<<>>} \cup
    UNION {{[p \in 1..n |-> IF p = 1 /\ first # 0 THEN (IF first = 1 THEN Skipped ELSE Parsed(<<>>))
                            ELSE LongPage(p, lo, hi)] :
              first \in 0..2, lo \in 1..(n + 1), hi \in 0..n} : n \in 1..maxPages}

(* SpecUniform: documents whose pages after the first are all alike *)
UniformDocs(maxPages) ==
    {<<>>} \cup
    {[p \in 1..n |-> IF p = 1 THEN first ELSE rest] :
        n \in 1..maxPages,
        first \in {Skipped, Parsed(<<>>), Parsed(LayoutC)},
        rest \in {Parsed(<<>>), Parsed(LayoutC), Parsed(LayoutB)}}

---------------------------------------------------------------------------
(* Page records *)

FreshPage(id) ==
    [id |-> id, skip_parsing |-> FALSE, width |-> 0, height |-> 0,
     margin |-> [header |-> 0, footer |-> 0], sections |-> <<>>, float_images |-> <<>>]

StalePage(id) ==
    [id |-> id, skip_parsing |-> FALSE, width |-> 5, height |-> 7,
     margin |-> [header |-> 2, footer |-> 3],
     sections |-> <<[margin |-> [header |-> 2, footer |-> 3], blocks |-> 1]>>,
     float_images |-> <<"old">>]

PageOf(id, v) ==
    [(IF v.stale THEN StalePage(id) ELSE FreshPage(id)) EXCEPT !.skip_parsing = v.skip_parsing]

InitOn(docs) ==
    /\ \E d \in docs :
        /\ self_pages = [p \in 1..Len(d) |-> PageOf(p, d[p])]
        /\ fitz_doc = [p \in 1..Len(d) |-> d[p].raw]
    /\ pc = "extract"
    /\ cur = 1
    /\ pages = <<>>
    /\ raw_pages = <<>>
    /\ words_found = FALSE
    /\ warned = 0
    /\ headers = EmptyCounter
    /\ footers = EmptyCounter
    /\ threshold = 0
    /\ header_blocks = <<>>
    /\ footer_blocks = <<>>
    /\ history = <<>>

Init == InitOn(DocsOf(SkipVariants, MaxPages))

InitRich == InitOn(DocsOf(RichVariants, MaxRichPages))

InitMid == InitOn(DocsFirstRest(MidFirst, MidLayouts, MaxMidPages))

InitLong == InitOn(LongDocs(MaxLongPages))

InitUniform == InitOn(UniformDocs(MaxThresholdPages))

---------------------------------------------------------------------------
(* Pages.parse *)

detector == <<headers, footers, threshold, header_blocks, footer_blocks>>

Event(op, page) == [op |-> op, page |-> page]

SkipParsingNever(page) == FALSE

SkipParsing(page) == page.skip_parsing

SkipPage ==
    /\ pc = "extract"
    /\ cur <= Len(self_pages)
    /\ SkipParsing(self_pages[cur])
    /\ cur' = cur + 1
    /\ UNCHANGED <<self_pages, fitz_doc, pc, pages, raw_pages, words_found, warned, detector>>
    /\ history' = Append(history, Event("skip", cur))

ExtractPage ==
    /\ pc = "extract"
    /\ cur <= Len(self_pages)
    /\ ~SkipParsing(self_pages[cur])
    /\ LET raw_page == fitz_doc[self_pages[cur].id]
       IN  /\ words_found' = (words_found \/ Strip(raw_page.raw_text) # <<>>)
           /\ self_pages' = [self_pages EXCEPT ![cur].width = raw_page.width,
                                               ![cur].height = raw_page.height,
                                               ![cur].float_images = raw_page.floating]
           /\ raw_pages' = Append(raw_pages,
                                  [blocks |-> raw_page.blocks, width |-> raw_page.width,
                                   height |-> raw_page.height, header |-> raw_page.header,
                                   footer |-> raw_page.footer,
                                   margin |-> [header |-> 0, footer |-> 0]])
           /\ pages' = Append(pages, cur)
    /\ cur' = cur + 1
    /\ UNCHANGED <<fitz_doc, pc, warned, detector>>
    /\ history' = Append(history, Event("extract", cur))

ExtractDone ==
    /\ pc = "extract"
    /\ cur > Len(self_pages)
    /\ warned' = IF ~words_found THEN warned + 1 ELSE warned
    /\ pc' = "document"
    /\ UNCHANGED <<self_pages, fitz_doc, cur, pages, raw_pages, words_found, detector>>
    /\ UNCHANGED history

ParseDocument ==
    /\ pc = "document"
    /\ headers' = EmptyCounter
    /\ footers' = EmptyCounter
    /\ threshold' = Threshold(Len(raw_pages))
    /\ history' = Append(history, Event("detect", 0))
    /\ pc' = "tally"
    /\ cur' = 1
    /\ UNCHANGED <<self_pages, fitz_doc, pages, raw_pages, words_found, warned,
                   header_blocks, footer_blocks>>

TallySkipEmpty ==
    /\ pc = "tally"
    /\ cur <= Len(raw_pages)
    /\ raw_pages[cur].blocks = <<>>
    /\ cur' = cur + 1
    /\ UNCHANGED <<self_pages, fitz_doc, pc, pages, raw_pages, words_found, warned, detector>>
    /\ history' = Append(history, Event("tally", cur))

TallyPage ==
    /\ pc = "tally"
    /\ cur <= Len(raw_pages)
    /\ raw_pages[cur].blocks # <<>>
    /\ LET blocks == SortInReadingOrder(raw_pages[cur].blocks)
           hf == TallyLoop([h |-> headers, f |-> footers], blocks, 0)
       IN  /\ raw_pages' = [raw_pages EXCEPT ![cur].blocks = blocks]
           /\ headers' = hf.h
           /\ footers' = hf.f
    /\ cur' = cur + 1
    /\ UNCHANGED <<self_pages, fitz_doc, pc, pages, words_found, warned, threshold,
                   header_blocks, footer_blocks>>
    /\ history' = Append(history, Event("tally", cur))

TallyDoneEarly ==
    /\ pc = "tally"
    /\ cur > 1 \/ cur > Len(raw_pages)
    /\ pc' = "classify"
    /\ cur' = 1
    /\ UNCHANGED <<self_pages, fitz_doc, pages, raw_pages, words_found, warned, detector>>
    /\ UNCHANGED history

TallyDone ==
    /\ pc = "tally"
    /\ cur > Len(raw_pages)
    /\ pc' = "classify"
    /\ cur' = 1
    /\ UNCHANGED <<self_pages, fitz_doc, pages, raw_pages, words_found, warned, detector>>
    /\ UNCHANGED history

ClassifySkipEmpty ==
    /\ pc = "classify"
    /\ cur <= Len(raw_pages)
    /\ raw_pages[cur].blocks = <<>>
    /\ cur' = cur + 1
    /\ UNCHANGED <<self_pages, fitz_doc, pc, pages, raw_pages, words_found, warned, detector>>
    /\ history' = Append(history, Event("classify", cur))

ClassifyPage ==
    /\ pc = "classify"
    /\ cur <= Len(raw_pages)
    /\ raw_pages[cur].blocks # <<>>
    /\ LET blocks == SortInReadingOrder(raw_pages[cur].blocks)
           hf == ClassifyLoop([h |-> <<>>, f |-> <<>>], blocks, 0)
       IN  /\ header_blocks' = hf.h
           /\ footer_blocks' = hf.f
           /\ raw_pages' = [raw_pages EXCEPT
                  ![cur].blocks = blocks,
                  ![cur].header = MaxDefault(Bottoms(hf.h), 0),
                  ![cur].footer = MinDefault(Tops(hf.f), PageBBox(raw_pages[cur])[4])]
    /\ cur' = cur + 1
    /\ UNCHANGED <<self_pages, fitz_doc, pc, pages, words_found, warned, headers, footers,
                   threshold>>
    /\ history' = Append(history, Event("classify", cur))

ClassifyDone ==
    /\ pc = "classify"
    /\ cur > Len(raw_pages)
    /\ pc' = "margin"
    /\ cur' = 1
    /\ UNCHANGED <<self_pages, fitz_doc, pages, raw_pages, words_found, warned, detector>>
    /\ UNCHANGED history

MarginSection ==
    /\ pc = "margin"
    /\ cur <= Len(pages)
    /\ LET margin == CalculateMargin(raw_pages[cur])
           raw_page == [raw_pages[cur] EXCEPT !.margin = margin]
       IN  /\ raw_pages' = [raw_pages EXCEPT ![cur] = raw_page]
           /\ self_pages' = [self_pages EXCEPT
                  ![pages[cur]].margin = margin,
                  ![pages[cur]].sections = @ \o ParseSection(raw_page)]
    /\ cur' = cur + 1
    /\ UNCHANGED <<fitz_doc, pc, pages, words_found, warned, detector>>
    /\ history' = Append(history, Event("margin", pages[cur]))

ParseDone ==
    /\ pc = "margin"
    /\ cur > Len(pages)
    /\ pc' = "done"
    /\ UNCHANGED <<self_pages, fitz_doc, cur, pages, raw_pages, words_found, warned, detector>>
    /\ UNCHANGED history

Next ==
    \/ SkipPage
    \/ ExtractPage
    \/ ExtractDone
    \/ ParseDocument
    \/ TallySkipEmpty
    \/ TallyPage
    \/ TallyDone
    \/ ClassifySkipEmpty
    \/ ClassifyPage
    \/ ClassifyDone
    \/ MarginSection
    \/ ParseDone

Spec == Init /\ [][Next]_vars

SpecRich == InitRich /\ [][Next]_vars

SpecMid == InitMid /\ [][Next]_vars

SpecLong == InitLong /\ [][Next]_vars

SpecUniform == InitUniform /\ [][Next]_vars

---------------------------------------------------------------------------
(* Vocabulary of the properties *)

Detected == pc \in {"margin", "done"}

ThresholdSet == pc \notin {"extract", "document"}

HeadWindow(bs) == {j \in 1..Len(bs) : j <= WindowSize}

TailWindow(bs) == {j \in 1..Len(bs) : j > Len(bs) - WindowSize}

SetMax(S) == CHOOSE x \in S : \A y \in S : y <= x

SetMin(S) == CHOOSE x \in S : \A y \in S : x <= y

BottomEdge(raw) == raw.height

HasText(b) == b.text # None

(* window positions of page k whose signature's tally count exceeds the threshold *)
HeaderSet(k) ==
    LET bs == raw_pages[k].blocks
    IN  {j \in HeadWindow(bs) :
            HasText(bs[j]) /\ Get(headers, Signature(bs[j].text)) > threshold}

FooterSet(k) ==
    LET bs == raw_pages[k].blocks
    IN  {j \in TailWindow(bs) :
            HasText(bs[j]) /\ Get(footers, Signature(bs[j].text)) > threshold}

BoundariesOf(k) ==
    LET bs == raw_pages[k].blocks
    IN  /\ raw_pages[k].header =
              IF HeaderSet(k) = {} THEN 0
              ELSE SetMax({bs[j].bbox[4] : j \in HeaderSet(k)})
        /\ raw_pages[k].footer =
              IF FooterSet(k) = {} THEN BottomEdge(raw_pages[k])
              ELSE SetMin({bs[j].bbox[2] : j \in FooterSet(k)})

(* C1: after _parse_header_footer every page with at least one block has     *)
(* header = the largest bottom-y of the first-3 blocks whose signature's     *)
(* header count is strictly above the threshold (0 if there is none), and    *)
(* footer = the smallest top-y of the last-3 blocks whose signature's footer *)
(* count is strictly above the threshold (the page's bottom edge if none).   *)
C1_BoundariesFromTallies ==
    Detected =>
        \A k \in 1..Len(raw_pages) : raw_pages[k].blocks # <<>> => BoundariesOf(k)

(* a page with a classified and, further down, an unclassified header        *)
(* candidate, and a classified and, further up, an unclassified footer one   *)
C1_Witness ==
    /\ pc = "done"
    /\ \E k \in 1..Len(raw_pages) :
          LET bs == raw_pages[k].blocks
          IN  /\ HeaderSet(k) # {}
              /\ FooterSet(k) # {}
              /\ \E j \in HeadWindow(bs) \ HeaderSet(k) :
                    HasText(bs[j]) /\ bs[j].bbox[4] > raw_pages[k].header
              /\ \E j \in TailWindow(bs) \ FooterSet(k) :
                    HasText(bs[j]) /\ bs[j].bbox[2] < raw_pages[k].footer

FloorFourTenths(n) == CHOOSE t \in 0..n : 10 * t <= 4 * n /\ 4 * n < 10 * (t + 1)

PiecewiseRule(n) ==
    IF n \in {2, 3} THEN n
    ELSE IF n > 10 THEN FloorFourTenths(n)
    ELSE 4

(* C2: the threshold depends on the number n of analyzed pages only: n for   *)
(* n in {2,3}, floor(0.4 n) for n > 10, 4 otherwise; threshold(2)=2,         *)
(* threshold(3)=3, threshold(4)=4, threshold(11)=4, threshold(20)=8.         *)
C2_ThresholdRule ==
    ThresholdSet =>
        LET n == Len(raw_pages)
        IN  /\ threshold = PiecewiseRule(n)
            /\ n = 2 => threshold = 2
            /\ n = 3 => threshold = 3
            /\ n = 4 => threshold = 4
            /\ n = 11 => threshold = 4
            /\ n = 20 => threshold = 8

C2_Witness == pc = "done" /\ Len(raw_pages) = 20 /\ threshold = 8

(* u and v differ in one digit of a digit run: one digit replaced by another, *)
(* or one digit more next to a digit                                         *)
DigitReplaced(u, v) ==
    /\ Len(u) = Len(v)
    /\ \E k \in 1..Len(u) :
          /\ IsDigit(u[k]) /\ IsDigit(v[k])
          /\ \A m \in 1..Len(u) : m # k => u[m] = v[m]

DigitInserted(u, v) ==
    /\ Len(v) = Len(u) + 1
    /\ \E k \in 1..Len(v) :
          /\ IsDigit(v[k])
          /\ (k > 1 /\ IsDigit(v[k - 1])) \/ (k < Len(v) /\ IsDigit(v[k + 1]))
          /\ u = SubSeq(v, 1, k - 1) \o SubSeq(v, k + 1, Len(v))

DigitEdit(u, v) == DigitReplaced(u, v) \/ DigitInserted(u, v) \/ DigitInserted(v, u)

TextBlocks == {<<k, j>> \in (1..Len(raw_pages)) \X (1..(WindowSize + WindowSize)) :
                  j <= Len(raw_pages[k].blocks) /\ HasText(raw_pages[k].blocks[j])}

TextAt(kj) == raw_pages[kj[1]].blocks[kj[2]].text

(* the pages with the signature s in their first-3 / last-3 window *)
HeadPages(s) ==
    {k \in 1..Len(raw_pages) :
        \E j \in HeadWindow(raw_pages[k].blocks) :
            HasText(raw_pages[k].blocks[j]) /\ Signature(raw_pages[k].blocks[j].text) = s}

TailPages(s) ==
    {k \in 1..Len(raw_pages) :
        \E j \in TailWindow(raw_pages[k].blocks) :
            HasText(raw_pages[k].blocks[j]) /\ Signature(raw_pages[k].blocks[j].text) = s}

InSeq(b, bs) == \E m \in 1..Len(bs) : bs[m] = b

(* every page ends with a block of one template, on more than threshold      *)
(* pages, and no other last-3 block has a signature that occurs twice        *)
TemplateFooterDocument ==
    /\ Len(raw_pages) > threshold
    /\ \A k \in 1..Len(raw_pages) :
          LET bs == raw_pages[k].blocks
          IN  /\ bs # <<>>
              /\ HasText(bs[Len(bs)])
              /\ Signature(bs[Len(bs)].text) = Signature(raw_pages[1].blocks[Len(raw_pages[1].blocks)].text)
              /\ \A j \in TailWindow(bs) \ {Len(bs)} :
                    HasText(bs[j]) =>
                        /\ TailPages(Signature(bs[j].text)) = {k}
                        /\ \A m \in TailWindow(bs) \ {j} :
                              HasText(bs[m]) => Signature(bs[m].text) # Signature(bs[j].text)

(* C4: texts that differ only in digits of their digit runs have the same    *)
(* signature; a template in a window on more than threshold(n) pages, digits *)
(* varying, has its block classified on each of these pages; when every page *)
(* ends with the template and no other tail block is repeated, each page's   *)
(* footer is the top-y of that block.                                        *)
C4_DigitTemplates ==
    /\ \A a \in TextBlocks : \A b \in TextBlocks :
          DigitEdit(Strip(TextAt(a)), Strip(TextAt(b))) =>
              Signature(TextAt(a)) = Signature(TextAt(b))
    /\ (pc = "classify" /\ cur > 1 /\ raw_pages[cur - 1].blocks # <<>>) =>
          LET bs == raw_pages[cur - 1].blocks
          IN  /\ \A j \in HeadWindow(bs) :
                    (HasText(bs[j]) /\ Cardinality(HeadPages(Signature(bs[j].text))) > threshold)
                        => InSeq(bs[j], header_blocks)
              /\ \A j \in TailWindow(bs) :
                    (HasText(bs[j]) /\ Cardinality(TailPages(Signature(bs[j].text))) > threshold)
                        => InSeq(bs[j], footer_blocks)
    /\ (Detected /\ TemplateFooterDocument) =>
          \A k \in 1..Len(raw_pages) :
              raw_pages[k].footer = raw_pages[k].blocks[Len(raw_pages[k].blocks)].bbox[2]

(* a 12-page document ending every page with "P<n>", once below a body block *)
C4_Witness ==
    /\ pc = "done"
    /\ Len(raw_pages) = 12
    /\ TemplateFooterDocument
    /\ \E k \in 1..Len(raw_pages) : Len(raw_pages[k].blocks) > 1 /\ raw_pages[k].footer = 7
    /\ \E k \in 1..Len(raw_pages) : raw_pages[k].footer = 8
    /\ \E a \in TextBlocks : \E b \in TextBlocks :
          /\ TextAt(a) # TextAt(b)
          /\ DigitInserted(Strip(TextAt(a)), Strip(TextAt(b)))

NonSkipped == {p \in 1..Len(self_pages) : ~self_pages[p].skip_parsing}

Given(j) ==
    LET page == self_pages[pages[j]]
    IN  /\ page.width = fitz_doc[page.id].width
        /\ page.height = fitz_doc[page.id].height
        /\ page.float_images = fitz_doc[page.id].floating
        /\ page.margin = CalculateMargin(raw_pages[j])
        /\ page.sections # <<>>
        /\ page.sections[Len(page.sections)] = ParseSection(raw_pages[j])[1]

(* C6: no step of parse changes a page whose skip flag is set; such a page   *)
(* is not extracted and not among the pages handed to the detector; at the   *)
(* end every other page has width, height, floating images, margin, sections *)
C6_SkippedUntouched ==
    /\ [][\A p \in 1..Len(self_pages) :
            self_pages[p].skip_parsing => self_pages'[p] = self_pages[p]]_vars
    /\ [](/\ Len(raw_pages) = Len(pages)
          /\ \A j \in 1..Len(pages) : pages[j] \in NonSkipped
          /\ \A i \in 1..Len(history) :
                history[i].op \in {"extract", "margin"} => history[i].page \in NonSkipped
          /\ pc # "extract" =>
                /\ Len(raw_pages) = Cardinality(NonSkipped)
                /\ {pages[j] : j \in 1..Len(pages)} = NonSkipped
          /\ pc = "done" => \A j \in 1..Len(pages) : Given(j))

(* a skipped page, carrying its earlier values, between two parsed pages     *)
C6_Witness ==
    /\ pc = "done"
    /\ \E p \in NonSkipped : \E q \in 1..Len(self_pages) : \E r \in NonSkipped :
          /\ p < q /\ q < r
          /\ self_pages[q].skip_parsing
          /\ self_pages[q].width = 5 /\ self_pages[q].float_images = <<"old">>
          /\ self_pages[r].width = 6 /\ Len(self_pages[r].sections) = 1

Steps(op) == {i \in 1..Len(history) : history[i].op = op}

PagesBefore(op, i) == {history[h].page : h \in {h \in 1..(i - 1) : history[h].op = op}}

HeadCount(s) ==
    Cardinality({kj \in TextBlocks :
        /\ kj[2] \in HeadWindow(raw_pages[kj[1]].blocks)
        /\ Signature(TextAt(kj)) = s})

TailCount(s) ==
    Cardinality({kj \in TextBlocks :
        /\ kj[2] \in TailWindow(raw_pages[kj[1]].blocks)
        /\ Signature(TextAt(kj)) = s})

TalliesComplete ==
    /\ \A s \in DOMAIN headers \cup DOMAIN footers \cup {Signature(TextAt(kj)) : kj \in TextBlocks} :
          /\ Get(headers, s) = HeadCount(s)
          /\ Get(footers, s) = TailCount(s)

NoTextInWindows(k) ==
    LET bs == raw_pages[k].blocks
    IN  \A j \in HeadWindow(bs) \cup TailWindow(bs) : ~HasText(bs[j])

(* C3: after the detector every page without a qualifying block, a page      *)
(* without blocks included, has header 0 and footer = its bottom edge,       *)
(* whatever it held before.                                                  *)
C3_DefaultBoundaries ==
    Detected =>
        \A k \in 1..Len(raw_pages) :
            NoTextInWindows(k) =>
                /\ raw_pages[k].header = 0
                /\ raw_pages[k].footer = BottomEdge(raw_pages[k])

Blank(b) == HasText(b) /\ Strip(b.text) = <<>>

(* C5: a window block whose text is empty after trimming is never tallied    *)
(* (the empty signature has no entry) and never classified.                  *)
C5_BlankExcluded ==
    /\ <<>> \notin DOMAIN headers
    /\ <<>> \notin DOMAIN footers
    /\ \A m \in 1..Len(header_blocks) : ~Blank(header_blocks[m])
    /\ \A m \in 1..Len(footer_blocks) : ~Blank(footer_blocks[m])

WellFormedBlocks ==
    \A k \in 1..Len(raw_pages) : \A j \in 1..Len(raw_pages[k].blocks) :
        raw_pages[k].blocks[j].bbox[4] >= raw_pages[k].blocks[j].bbox[2]

(* C7: with y1 >= y0 for every block, after the detector every page whose    *)
(* header is not 0 and whose footer is not the bottom edge has               *)
(* header <= footer.                                                         *)
C7_HeaderAboveFooter ==
    (Detected /\ WellFormedBlocks) =>
        \A k \in 1..Len(raw_pages) :
            (raw_pages[k].header # 0 /\ raw_pages[k].footer # BottomEdge(raw_pages[k]))
                => raw_pages[k].header <= raw_pages[k].footer

(* C8: with 2 or 3 analyzed pages no block is classified, and every page     *)
(* with blocks gets header 0 and footer = its bottom edge.                   *)
C8_ShortDocumentsUndetected ==
    (ThresholdSet /\ Len(raw_pages) \in {2, 3}) =>
        /\ header_blocks = <<>>
        /\ footer_blocks = <<>>
        /\ Detected =>
              \A k \in 1..Len(raw_pages) :
                  raw_pages[k].blocks # <<>> =>
                      /\ raw_pages[k].header = 0
                      /\ raw_pages[k].footer = BottomEdge(raw_pages[k])

(* C9: every count of the header tally and of the footer tally is at most    *)
(* the number of analyzed pages, at every point.                             *)
C9_CountsAtMostPages ==
    /\ \A s \in DOMAIN headers : headers[s] <= Len(raw_pages)
    /\ \A s \in DOMAIN footers : footers[s] <= Len(raw_pages)

===========================================================================
